---- MODULE Spec2Model ----
(***************************************************************************)
(* Model of proxmox_geoip_firewall/main.py: the GeoIP firewall             *)
(* synchronisation run (smart_update) against the kernel rule chains       *)
(* (iptables / ip6tables INPUT), the kernel address sets (ipset), the      *)
(* three persisted files and the remote database.                          *)
(*                                                                         *)
(* Every external command of the script is one step, so that a run can be  *)
(* observed, can fail and can be interrupted at every step boundary.       *)
(***************************************************************************)
EXTENDS Integers, Sequences, FiniteSets, TLC

(***************************************************************************)
(* Bounds of the model.                                                    *)
(***************************************************************************)
MaxRuns   == 3      \* invocations of smart_update in one behaviour
MaxFaults == 1      \* rejected commands, transport errors and interruptions
MaxEnv    == 1      \* changes made by the environment between two runs
MaxChain  == 3      \* rules of the IPv4 chain a rebuild is started on (SpecChains)

(***************************************************************************)
(* CONFIG (main.py:16-34).                                                 *)
(***************************************************************************)
PRIVATE_NETWORKS_V4 == <<"10.0.0.0/8", "172.16.0.0/12", "192.168.0.0/16", "169.254.0.0/16">>
PRIVATE_NETWORKS_V6 == <<"fc00::/7", "fe80::/10">>

\* The allow-lists the model is run with; CONFIG["ALLOWED_COUNTRIES"] is <<"KR">>.
AllowLists == { <<"KR">>, <<>>, <<"US", "KR">> }

Absent  == "absent"
Corrupt == "corrupt"
NoCountry == "none"

(***************************************************************************)
(* Database contents.  A database is the sequence of its records, each a   *)
(* network and the ISO code it is attributed to (NoCountry: the record     *)
(* carries no country).                                                    *)
(***************************************************************************)
Rec(n, c) == [network |-> n, iso_code |-> c]

DbA == << Rec("1.0.0.0/24", "KR"), Rec("2.0.0.0/24", "US"),
          Rec("2001:db8::/32", "KR"), Rec("3.0.0.0/24", NoCountry) >>
DbB == << Rec("2.0.1.0/24", "US"), Rec("1.0.0.0/24", "KR"), Rec("1.0.1.0/24", "KR"),
          Rec("2001:db9::/32", "CN"), Rec("3.0.1.0/24", "CN"),
          Rec("2001:dba::/32", "US"), Rec("2001:db8::/32", "KR") >>

\* the content of a database file is named ("DbA", "DbB"); Records gives its records
Records(content) == IF content = "DbA" THEN DbA ELSE DbB

\* ":" in ip_range (main.py:295), for the network literals of the model.
HasColon(p) == p \in { "2001:db8::/32", "2001:db9::/32", "2001:dba::/32", "fc00::/7", "fe80::/10" }


(***************************************************************************)
(* The remote database of the current month: its HEAD metadata and its     *)
(* content, or not yet published (HTTP 404).  A header value is a sequence *)
(* of tokens, as response.headers.get returns it: the white space after    *)
(* the colon is gone, white space at the end of the line is kept.          *)
(***************************************************************************)
Remote(lm, cl, db) == [published |-> TRUE, last_modified |-> lm, content_length |-> cl, db |-> db]

NotPublished == [published |-> FALSE, last_modified |-> <<>>, content_length |-> <<>>, db |-> Absent]

Remotes == { Remote(<<"Mon">>, <<"100">>, "DbA"), Remote(<<"Tue">>, <<"100">>, "DbA"),
             Remote(<<"Wed">>, <<"200">>, "DbB"), Remote(<<"Thu">>, <<"100", " ">>, "DbA"),
             NotPublished }

(***************************************************************************)
(* The fingerprint and hash files: absent, or a text (a sequence of        *)
(* tokens).  str.strip() removes the white space at both ends.             *)
(***************************************************************************)
NoFile == [exists |-> FALSE, text |-> <<>>]

File(text) == [exists |-> TRUE, text |-> text]

IsSpace(t) == t \in { " ", "\n" }

RECURSIVE LStrip(_)
LStrip(s) == IF s # <<>> /\ IsSpace(Head(s)) THEN LStrip(Tail(s)) ELSE s

RECURSIVE RStrip(_)
RStrip(s) == IF s # <<>> /\ IsSpace(s[Len(s)]) THEN RStrip(SubSeq(s, 1, Len(s) - 1)) ELSE s

Strip(s) == RStrip(LStrip(s))

\* f"{last_modified}|{content_length}" (main.py:66)
CheckInfo(last_modified, content_length) == last_modified \o <<"|">> \o content_length

\* hashlib.sha256 hexdigest of the file content (main.py:93-98)
calculate_file_hash(content) ==
    IF content = Corrupt THEN <<"sha256-of-truncated">>
    ELSE IF content = "DbA" THEN <<"sha256-of-DbA">>
    ELSE <<"sha256-of-DbB">>

(***************************************************************************)
(* parse_mmdb_to_country_ipranges (main.py:142-203): the country -> ranges *)
(* dictionary, in insertion order, as a sequence of [cc, ranges].          *)
(***************************************************************************)
Keys(m) == [k \in 1..Len(m) |-> m[k].cc]

HasKey(m, cc) == \E k \in 1..Len(m) : m[k].cc = cc

AppendRange(m, cc, network) ==
    IF HasKey(m, cc)
    THEN [k \in 1..Len(m) |->
            IF m[k].cc = cc THEN [m[k] EXCEPT !.ranges = Append(@, network)] ELSE m[k]]
    ELSE Append(m, [cc |-> cc, ranges |-> <<network>>])

RECURSIVE ParseFrom(_, _, _)
ParseFrom(db, k, acc) ==
    IF k > Len(db) THEN acc
    ELSE IF db[k].iso_code = NoCountry THEN ParseFrom(db, k + 1, acc)
    ELSE ParseFrom(db, k + 1, AppendRange(acc, db[k].iso_code, db[k].network))

parse_mmdb_to_country_ipranges(file, readable) ==
    IF file = Absent \/ file = Corrupt \/ ~readable THEN <<>>
    ELSE ParseFrom(Records(file), 1, <<>>)

\* the ipv4_ranges / ipv6_ranges split of apply_native_ipset (main.py:291-298)
RECURSIVE FamRanges(_, _)
FamRanges(ranges, fam) ==
    IF ranges = <<>> THEN <<>>
    ELSE IF HasColon(Head(ranges)) = (fam = "v6")
         THEN <<Head(ranges)>> \o FamRanges(Tail(ranges), fam)
         ELSE FamRanges(Tail(ranges), fam)

Range(s) == { s[k] : k \in 1..Len(s) }

(***************************************************************************)
(* Names of the address sets (main.py:309, 336) and the name filters of    *)
(* cleanup_existing_ipsets and smart_update (main.py:263, 863).            *)
(***************************************************************************)
SetName(cc, fam) == IF fam = "v6" THEN <<"country-", cc, "-v6">> ELSE <<"country-", cc>>

StartsWith(name, prefix) == name # <<>> /\ Head(name) = prefix

\* int(len(ranges) * 1.1)
MaxSize(ranges) == (Len(ranges) * 11) \div 10

(***************************************************************************)
(* Rules of the INPUT chain.  A rule is its target, its comment, its       *)
(* matches, the address set it matches against and its log prefix.         *)
(***************************************************************************)
Tag == "geoip-firewall"

Rule(target, comment, match, set, log_prefix) ==
    [target |-> target, comment |-> comment, match |-> match, set |-> set,
     log_prefix |-> log_prefix]

\* main.py:376-414
StatefulRule == Rule("ACCEPT", <<Tag, "-stateful">>, <<"ctstate", "ESTABLISHED,RELATED">>, <<>>, <<>>)

\* main.py:424-458
LocalhostRule == Rule("ACCEPT", <<Tag, "-localhost">>, <<"-i", "lo">>, <<>>, <<>>)

\* main.py:469-505
PrivateRule(network) == Rule("ACCEPT", <<Tag, "-private">>, <<"-s", network>>, <<>>, <<>>)

\* main.py:523-550, 580-607 (ACCEPT) and 644-671, 701-728 (DROP)
CountryLogRule(cc, fam, verdict) ==
    Rule("LOG", <<Tag, "-log">>, <<"ctstate", "NEW">>, SetName(cc, fam), <<"GEOIP-", verdict, "-", cc, ": ">>)

\* main.py:552-571, 609-628
CountryAcceptRule(cc, fam) == Rule("ACCEPT", <<Tag>>, <<>>, SetName(cc, fam), <<>>)

\* main.py:673-692, 730-749
CountryDropRule(cc, fam) == Rule("DROP", <<Tag, "-drop">>, <<>>, SetName(cc, fam), <<>>)

\* main.py:758-780, 798-820
FinalLogRule == Rule("LOG", <<Tag, "-log">>, <<"ctstate", "NEW">>, <<>>, <<"GEOIP-DROP-UNKNOWN: ">>)

\* main.py:782-796, 822-836
FinalDropRule == Rule("DROP", <<Tag, "-drop">>, <<>>, <<>>, <<>>)

\* a rule of another system (sshd access), without the marker
ForeignRule == Rule("ACCEPT", <<"sshd">>, <<"dport", "22">>, <<>>, <<>>)

\* a second rule of another system (a ban), without the marker
OtherRule == Rule("DROP", <<"fail2ban">>, <<"-s", "198.51.100.7">>, <<>>, <<>>)

(***************************************************************************)
(* iptables -L INPUT -n --line-numbers: two header lines, then one line    *)
(* per rule; line_num is 0 where the first word of a line is no number.    *)
(***************************************************************************)
RuleText(r) == <<r.target>> \o r.match \o r.set \o <<"/*">> \o r.comment \o <<"*/">> \o r.log_prefix

Listing(rules) ==
    << [line_num |-> 0, text |-> <<"Chain", "INPUT">>],
       [line_num |-> 0, text |-> <<"num", "target">>] >>
    \o [k \in 1..Len(rules) |-> [line_num |-> k, text |-> RuleText(rules[k])]]

\* needle in line
Contains(needle, text) ==
    \E k \in 1..(Len(text) - Len(needle) + 1) : SubSeq(text, k, k + Len(needle) - 1) = needle

DropNeedle == <<Tag, "-drop">>

\* mutant: the second loop looks for a text no rule carries
AnyNeedleMisspelt == <<"geoip_firewall">>

\* "geoip-firewall" in line (main.py:245)
AnyNeedle == <<Tag>>

\* mutant: the position of the line in the output is taken for the rule number
FirstMatchByIndex(stdout, needle) ==
    LET hits == { k \in 1..Len(stdout) :
                    Contains(needle, stdout[k].text) /\ stdout[k].line_num > 0 }
    IN  IF hits = {} THEN 0
        ELSE CHOOSE k \in hits : \A j \in hits : k <= j

\* the first line that contains the needle and starts with a number (0: none);
\* main.py:221-231 and 243-253
FirstMatch(stdout, needle) ==
    LET hits == { k \in 1..Len(stdout) :
                    Contains(needle, stdout[k].text) /\ stdout[k].line_num > 0 }
    IN  IF hits = {} THEN 0
        ELSE stdout[CHOOSE k \in hits : \A j \in hits : k <= j].line_num

\* iptables -D INPUT n
DeleteAt(rules, n) ==
    IF n \in 1..Len(rules)
    THEN SubSeq(rules, 1, n - 1) \o SubSeq(rules, n + 1, Len(rules))
    ELSE rules


(***************************************************************************)
(* State.                                                                  *)
(***************************************************************************)
VARIABLES
    chain,              \* kernel: family -> the rules of its INPUT chain, in order
    sets,               \* kernel: set name -> [maxelem, members]
    mmdb,               \* CONFIG["MMDB_FILE"]: Absent, Corrupt or a database
    hashFile,           \* CONFIG["HASH_FILE"]
    lastCheck,          \* CONFIG["LAST_CHECK_FILE"]
    remote,             \* the remote database of the current month
    allowed,            \* CONFIG["ALLOWED_COUNTRIES"]
    pc,                 \* position of the run
    loc,                \* loop variables of the run
    country_ip_ranges,  \* the map returned by the parser
    ALL_COUNTRIES,      \* the global set by apply_native_ipset
    outcome,            \* how the last run ended
    runs, faults, envs, \* counters bounding the behaviour
    streak,             \* runs started since the environment last changed anything
    g,                  \* what the current run did, and the state it started from
    prev                \* what the previous run did

vars == <<chain, sets, mmdb, hashFile, lastCheck, remote, allowed, pc, loc,
          country_ip_ranges, ALL_COUNTRIES, outcome, runs, faults, envs, streak, g, prev>>

kernel == <<chain, sets>>
files  == <<mmdb, hashFile, lastCheck>>
locals == <<country_ip_ranges, ALL_COUNTRIES>>
env    == <<remote, allowed, envs, streak>>

Loc0 == [fam |-> "v4", phase |-> "", line_num |-> 0, todo |-> <<>>, i |-> 0, sub |-> ""]

G0 == [kind |-> "", head |-> FALSE, get |-> FALSE, kmut |-> FALSE, faulted |-> FALSE,
       noupdate |-> "", detected |-> FALSE, cleaned |-> FALSE, entered |-> "",
       failed_at |-> "", appended |-> FALSE, stale |-> FALSE,
       chain0 |-> [f \in {"v4", "v6"} |-> <<>>], sets0 |-> <<>>, mmdb0 |-> Absent,
       hash0 |-> NoFile, last0 |-> NoFile]

Prev0 == [kind |-> "", detected |-> FALSE, outcome |-> "none"]

\* a set of another system, and the sets the kernel holds before the first run
ForeignSet == <<"blocklist">>

NewSet(maxelem) == [maxelem |-> maxelem, members |-> {}]

WithSet(ss, name, val) == [n \in DOMAIN ss \cup {name} |-> IF n = name THEN val ELSE ss[n]]

WithoutSet(ss, name) == [n \in DOMAIN ss \ {name} |-> ss[n]]

Init ==
    /\ chain = [f \in {"v4", "v6"} |-> IF f = "v4" THEN <<ForeignRule>> ELSE <<>>]
    /\ sets = WithSet(<<>>, ForeignSet, NewSet(8))
    /\ mmdb = Absent
    /\ \E stale \in BOOLEAN :
          /\ hashFile = IF stale THEN File(<<"sha256-of-DbA">>) ELSE NoFile
          /\ lastCheck = IF stale THEN File(CheckInfo(<<"Mon">>, <<"100">>)) ELSE NoFile
    /\ remote = Remote(<<"Mon">>, <<"100">>, "DbA")
    /\ allowed \in AllowLists
    /\ pc = "idle"
    /\ loc = Loc0
    /\ country_ip_ranges = <<>>
    /\ ALL_COUNTRIES = <<>>
    /\ outcome = "none"
    /\ runs = 0 /\ faults = 0 /\ envs = 0 /\ streak = 0
    /\ g = G0
    /\ prev = Prev0

(***************************************************************************)
(* Helpers of the steps.                                                   *)
(***************************************************************************)
\* a command that succeeds (ok) or is rejected; rejections are bounded
Outcome(ok) ==
    /\ ok \/ faults < MaxFaults
    /\ faults' = IF ok THEN faults ELSE faults + 1

Note(ok, fields) == [fields EXCEPT !.faulted = @ \/ ~ok]

\* the run ends: sys.exit
Finish(o) ==
    /\ pc' = "done"
    /\ outcome' = o
    /\ loc' = Loc0

\* ipset list -n, in the kernel's order
AllSetNames ==
    << ForeignSet,
       SetName("KR", "v4"), SetName("KR", "v6"), SetName("US", "v4"), SetName("US", "v6"),
       SetName("CN", "v4"), SetName("CN", "v6") >>

InKernel(name) == name \in DOMAIN sets

ListNames == SelectSeq(AllSetNames, InKernel)

IsCountrySet(name) == StartsWith(name, "country-")

IsGeoipSet(name) == StartsWith(name, "country-") \/ StartsWith(name, "geoip-")

\* the kernel refuses to destroy a set that a rule matches against
InUse(name) == \E f \in {"v4", "v6"} : \E k \in 1..Len(chain[f]) : chain[f][k].set = name


(***************************************************************************)
(* smart_update, main.py:847-929.                                          *)
(***************************************************************************)
\* mutant: the reboot case is forgotten, a present file always means steady state
ClassifyWithoutReboot(ipset_count, mmdb_exists) ==
    IF mmdb_exists THEN "steady"
    ELSE IF ipset_count = 0 THEN "first" ELSE "inconsistent"

\* mutant: sets without a database file are taken for the steady state
ClassifyInconsistentAsSteady(ipset_count, mmdb_exists) ==
    IF ipset_count = 0
    THEN IF mmdb_exists THEN "reboot" ELSE "first"
    ELSE "steady"

\* main.py:867, 870, 876, 885, 899: the four cases of smart_update
Classify(ipset_count, mmdb_exists) ==
    IF ipset_count = 0
    THEN IF mmdb_exists THEN "reboot" ELSE "first"
    ELSE IF mmdb_exists THEN "steady" ELSE "inconsistent"

\* main.py:855-884: look at the file and the sets, and take the case's first step
SmartUpdateStart(ok) ==
    /\ pc = "idle"
    /\ runs < MaxRuns
    /\ Outcome(ok)
    /\ runs' = runs + 1
    /\ streak' = streak + 1
    /\ prev' = [kind |-> g.kind, detected |-> g.detected, outcome |-> outcome]
    /\ LET mmdb_exists == mmdb # Absent
           ipset_count == IF ok THEN Cardinality({ n \in DOMAIN sets : IsCountrySet(n) })
                                ELSE 0
           kind == Classify(ipset_count, mmdb_exists)
       IN  /\ g' = Note(ok, [G0 EXCEPT !.kind = kind, !.chain0 = chain, !.sets0 = sets,
                                       !.mmdb0 = mmdb,
                                       !.hash0 = hashFile, !.last0 = lastCheck])
           /\ pc' = CASE kind = "reboot" -> IF hashFile.exists THEN "parse" ELSE "reboot_hash"
                      [] kind = "first" -> "first_unlink"
                      [] kind = "steady" -> "check_remote"
                      [] OTHER -> "download"
    /\ UNCHANGED <<kernel, files, remote, allowed, envs, loc, locals, outcome>>

\* main.py:874-875: check_file_hash_changed with no hash file
RebootHash ==
    /\ pc = "reboot_hash"
    /\ hashFile' = File(calculate_file_hash(mmdb))
    /\ pc' = "parse"
    /\ UNCHANGED <<kernel, mmdb, lastCheck, env, loc, locals, outcome, runs, faults, g, prev>>

\* main.py:878-879
FirstUnlink ==
    /\ pc = "first_unlink"
    /\ lastCheck' = NoFile
    /\ hashFile' = NoFile
    /\ pc' = "download"
    /\ UNCHANGED <<kernel, mmdb, env, loc, locals, outcome, runs, faults, g, prev>>

\* mutant: the saved fingerprint is compared with the Last-Modified value alone
SavedInfoMatchesLastModified(saved, check_info) ==
    saved.exists /\ Strip(saved.text) = <<check_info[1]>>

\* main.py:68-71: the saved fingerprint equals the one just read
SavedInfoMatches(saved, check_info) == saved.exists /\ Strip(saved.text) = check_info

\* mutant: HTTP 404 is raised like every other error
OnHeadErrorRaises(error) == "raise"

\* mutant: every error is answered with False, "no change"
OnHeadErrorReturnsFalse(error) == "unchanged"

\* main.py:82-90: what the check does with an exception of urlopen
OnHeadError(error) == IF error = "404" THEN "unchanged" ELSE "raise"

\* check_remote_file_changed, main.py:59-90, and its caller, main.py:886-888
CheckRemote(ok) ==
    /\ pc = "check_remote"
    /\ Outcome(ok)
    /\ LET check_info == CheckInfo(remote.last_modified, remote.content_length)
           error == IF ~ok THEN "URLError" ELSE IF ~remote.published THEN "404" ELSE ""
           seen == Note(ok, [g EXCEPT !.head = TRUE,
                                      !.failed_at = IF ok THEN @ ELSE "remote"])
       IN  IF error # "" /\ OnHeadError(error) = "raise"
           THEN \* the error is raised up to main
                /\ Finish("failure")
                /\ g' = seen
                /\ UNCHANGED lastCheck
           ELSE IF error # ""
           THEN \* the check returns False
                /\ Finish("success")
                /\ g' = [seen EXCEPT !.noupdate = "remote"]
                /\ UNCHANGED lastCheck
           ELSE IF SavedInfoMatches(lastCheck, check_info)
           THEN /\ Finish("success")
                /\ g' = [seen EXCEPT !.noupdate = "remote"]
                /\ UNCHANGED lastCheck
           ELSE /\ lastCheck' = File(check_info)
                /\ g' = [seen EXCEPT !.detected = TRUE]
                /\ pc' = "download"
                /\ UNCHANGED <<loc, outcome>>
    /\ UNCHANGED <<kernel, mmdb, hashFile, env, locals, runs, prev>>

\* download_dbip_database, main.py:119-139, and its callers
Download(res) ==
    /\ pc = "download"
    /\ res \in { "ok", "refused", "truncated" }
    /\ Outcome(res = "ok")
    /\ g' = Note(res = "ok", [g EXCEPT !.get = TRUE,
                                      !.failed_at = IF res = "ok" /\ remote.published
                                                    THEN @ ELSE "download"])
    /\ IF res = "ok" /\ remote.published
       THEN /\ mmdb' = remote.db
            /\ pc' = IF g.kind = "steady" THEN "hash_check" ELSE "parse"
            /\ UNCHANGED <<loc, outcome>>
       ELSE \* urlretrieve failed, or gzip failed after the file was opened for writing
            /\ mmdb' = IF res = "truncated" THEN Corrupt ELSE mmdb
            /\ Finish("failure")
    /\ UNCHANGED <<kernel, hashFile, lastCheck, env, locals, runs, prev>>

\* mutant: the comparison of the hashes is inverted
SavedHashDiffers(saved, current_hash) == saved.exists /\ Strip(saved.text) # current_hash

\* main.py:104-107: the saved hash equals the hash of the file
SavedHashMatches(saved, current_hash) == saved.exists /\ Strip(saved.text) = current_hash

\* check_file_hash_changed, main.py:101-116, and its caller, main.py:896-898;
\* an error reading the file (ok = FALSE) is raised up to main
HashCheck(ok) ==
    /\ pc = "hash_check"
    /\ Outcome(ok)
    /\ LET current_hash == calculate_file_hash(mmdb)
       IN  IF ~ok
           THEN /\ Finish("failure")
                /\ g' = Note(ok, [g EXCEPT !.failed_at = "hash"])
                /\ UNCHANGED hashFile
           ELSE IF SavedHashMatches(hashFile, current_hash)
           THEN /\ Finish("success")
                /\ g' = [g EXCEPT !.noupdate = "hash"]
                /\ UNCHANGED hashFile
           ELSE /\ hashFile' = File(current_hash)
                /\ pc' = "parse"
                /\ UNCHANGED <<loc, outcome, g>>
    /\ UNCHANGED <<kernel, mmdb, lastCheck, env, locals, runs, prev>>

\* mutant: an empty map is not treated as a failure, the rebuild goes on
ParseUnchecked(readable) ==
    /\ pc = "parse"
    /\ Outcome(readable)
    /\ LET m == parse_mmdb_to_country_ipranges(mmdb, readable)
       IN  /\ country_ip_ranges' = m
           /\ g' = Note(readable, [g EXCEPT !.entered = "cleanup",
                                            !.failed_at = IF m = <<>> THEN "parse" ELSE @])
           /\ pc' = "cl_scan"
           /\ loc' = [Loc0 EXCEPT !.fam = "v4", !.phase = "drop"]
           /\ UNCHANGED outcome
    /\ UNCHANGED <<kernel, files, env, ALL_COUNTRIES, runs, prev>>

\* main.py:906-910
Parse(readable) ==
    /\ pc = "parse"
    /\ Outcome(readable)
    /\ LET m == parse_mmdb_to_country_ipranges(mmdb, readable)
       IN  IF m = <<>>
           THEN /\ Finish("failure")
                /\ g' = Note(readable, [g EXCEPT !.failed_at = "parse"])
                /\ UNCHANGED country_ip_ranges
           ELSE /\ country_ip_ranges' = m
                /\ g' = [g EXCEPT !.entered = "cleanup"]
                /\ pc' = "cl_scan"
                /\ loc' = [Loc0 EXCEPT !.fam = "v4", !.phase = "drop"]
                /\ UNCHANGED outcome
    /\ UNCHANGED <<kernel, files, env, ALL_COUNTRIES, runs, prev>>


(***************************************************************************)
(* cleanup_existing_ipsets, main.py:206-277.                               *)
(***************************************************************************)
Needle(phase) == IF phase = "drop" THEN DropNeedle ELSE AnyNeedle

IsTagged(r) == Contains(AnyNeedle, RuleText(r))

\* where the scan goes when it finds no line: the next loop, the next command
AfterScan(l) ==
    IF l.phase = "drop" THEN [pc |-> "cl_scan", loc |-> [l EXCEPT !.phase = "any"]]
    ELSE IF l.fam = "v4" THEN [pc |-> "cl_scan", loc |-> [l EXCEPT !.fam = "v6", !.phase = "drop"]]
    ELSE [pc |-> "cl_list", loc |-> Loc0]

\* main.py:215-233 and 237-255: list the chain and look for the first tagged line
CleanupScan(ok) ==
    /\ pc = "cl_scan"
    /\ Outcome(ok)
    /\ g' = Note(ok, g)
    /\ LET stdout == IF ok THEN Listing(chain[loc.fam]) ELSE <<>>
           line_num == FirstMatch(stdout, Needle(loc.phase))
       IN  IF line_num > 0
           THEN /\ pc' = "cl_del"
                /\ loc' = [loc EXCEPT !.line_num = line_num]
           ELSE /\ pc' = AfterScan(loc).pc
                /\ loc' = AfterScan(loc).loc
    /\ UNCHANGED <<kernel, files, env, locals, outcome, runs, prev>>

\* main.py:225-231 and 248-253: delete by position; the result is not looked at
CleanupDelete(ok) ==
    /\ pc = "cl_del"
    /\ Outcome(ok)
    /\ g' = Note(ok, [g EXCEPT !.kmut = TRUE])
    /\ chain' = IF ok THEN [chain EXCEPT ![loc.fam] = DeleteAt(@, loc.line_num)] ELSE chain
    /\ pc' = "cl_scan"
    /\ loc' = [loc EXCEPT !.line_num = 0]
    /\ UNCHANGED <<sets, files, env, locals, outcome, runs, prev>>

\* main.py:258-263
CleanupListSets(ok) ==
    /\ pc = "cl_list"
    /\ Outcome(ok)
    /\ g' = Note(ok, g)
    /\ LET geoip_sets == IF ok THEN SelectSeq(ListNames, IsGeoipSet) ELSE <<>>
       IN  /\ pc' = "cl_destroy"
           /\ loc' = [Loc0 EXCEPT !.todo = geoip_sets]
    /\ UNCHANGED <<kernel, files, env, locals, outcome, runs, prev>>

\* main.py:265-269: destroy each set; the result is not looked at
CleanupDestroy(ok) ==
    /\ pc = "cl_destroy"
    /\ loc.todo # <<>>
    /\ Outcome(ok)
    /\ g' = Note(ok, [g EXCEPT !.kmut = TRUE])
    /\ LET set_name == Head(loc.todo)
       IN  sets' = IF ok /\ InKernel(set_name) /\ ~InUse(set_name)
                   THEN WithoutSet(sets, set_name) ELSE sets
    /\ loc' = [loc EXCEPT !.todo = Tail(@)]
    /\ UNCHANGED <<chain, files, env, locals, pc, outcome, runs, prev>>

NoTaggedRule == \A f \in {"v4", "v6"} : \A k \in 1..Len(chain[f]) : ~IsTagged(chain[f][k])

\* main.py:277 and 913-916: cleanup returns, apply_native_ipset is entered
CleanupReturn ==
    /\ pc = "cl_destroy"
    /\ loc.todo = <<>>
    /\ g' = [g EXCEPT !.cleaned = NoTaggedRule, !.entered = "apply"]
    /\ pc' = "apply"
    /\ loc' = Loc0
    /\ UNCHANGED <<kernel, files, env, locals, outcome, runs, faults, prev>>

(***************************************************************************)
(* apply_native_ipset, main.py:280-367.                                    *)
(***************************************************************************)
\* the next (country, family) at or after (i, fam) that has ranges; i past the
\* end of the map when there is none
RECURSIVE ApplyPos(_, _, _)
ApplyPos(m, i, fam) ==
    IF i > Len(m) THEN [i |-> i, fam |-> "v4"]
    ELSE IF FamRanges(m[i].ranges, fam) # <<>> THEN [i |-> i, fam |-> fam]
    ELSE IF fam = "v4" THEN ApplyPos(m, i, "v6")
    ELSE ApplyPos(m, i + 1, "v4")

AfterFam(i, fam) == IF fam = "v4" THEN [i |-> i, fam |-> "v6"] ELSE [i |-> i + 1, fam |-> "v4"]

\* main.py:284-288
ApplyBegin ==
    /\ pc = "apply"
    /\ ALL_COUNTRIES' = Keys(country_ip_ranges)
    /\ LET p == ApplyPos(country_ip_ranges, 1, "v4")
       IN  /\ pc' = IF p.i > Len(country_ip_ranges) THEN "su_stateful" ELSE "ap_create"
           /\ loc' = [Loc0 EXCEPT !.i = IF p.i > Len(country_ip_ranges) THEN 0 ELSE p.i,
                                  !.fam = p.fam]
    /\ g' = [g EXCEPT !.entered = IF pc' = "su_stateful" THEN "setup" ELSE @]
    /\ UNCHANGED <<kernel, files, env, country_ip_ranges, outcome, runs, faults, prev>>

CurRanges == FamRanges(country_ip_ranges[loc.i].ranges, loc.fam)

CurSet == SetName(country_ip_ranges[loc.i].cc, loc.fam)

\* ipset create NAME hash:net maxelem N -exist: an existing set is accepted
\* only when it was created with the same parameters
CreateAccepted(name, maxelem) == ~InKernel(name) \/ sets[name].maxelem = maxelem

\* main.py:311-315 and 338-342
ApplyCreate(ok) ==
    /\ pc = "ap_create"
    /\ Outcome(ok)
    /\ g' = Note(ok, [g EXCEPT !.kmut = TRUE,
                               !.failed_at = IF ok /\ CreateAccepted(CurSet, MaxSize(CurRanges))
                                             THEN @ ELSE "apply"])
    /\ IF ok /\ CreateAccepted(CurSet, MaxSize(CurRanges))
       THEN /\ sets' = IF InKernel(CurSet) THEN sets
                       ELSE WithSet(sets, CurSet, NewSet(MaxSize(CurRanges)))
            /\ pc' = "ap_flush"
            /\ UNCHANGED <<loc, outcome>>
       ELSE /\ Finish("failure")
            /\ UNCHANGED sets
    /\ UNCHANGED <<chain, files, env, locals, runs, prev>>

\* mutant: the flush is run without check=True, a rejected flush is not noticed
ApplyFlushUnchecked(ok) ==
    /\ pc = "ap_flush"
    /\ Outcome(ok)
    /\ g' = Note(ok, [g EXCEPT !.kmut = TRUE, !.failed_at = IF ok THEN @ ELSE "apply"])
    /\ sets' = IF ok THEN [sets EXCEPT ![CurSet].members = {}] ELSE sets
    /\ pc' = "ap_restore"
    /\ UNCHANGED <<loc, outcome>>
    /\ UNCHANGED <<chain, files, env, locals, runs, prev>>

\* mutant: the flush is left out, the set keeps the members it had
ApplyFlushSkipped(ok) ==
    /\ pc = "ap_flush"
    /\ Outcome(ok)
    /\ g' = Note(ok, [g EXCEPT !.kmut = TRUE, !.failed_at = IF ok THEN @ ELSE "apply"])
    /\ IF ok
       THEN /\ pc' = "ap_restore"
            /\ UNCHANGED <<sets, loc, outcome>>
       ELSE /\ Finish("failure")
            /\ UNCHANGED sets
    /\ UNCHANGED <<chain, files, env, locals, runs, prev>>

\* main.py:316-320 and 343-347
ApplyFlush(ok) ==
    /\ pc = "ap_flush"
    /\ Outcome(ok)
    /\ g' = Note(ok, [g EXCEPT !.kmut = TRUE, !.failed_at = IF ok THEN @ ELSE "apply"])
    /\ IF ok
       THEN /\ sets' = [sets EXCEPT ![CurSet].members = {}]
            /\ pc' = "ap_restore"
            /\ UNCHANGED <<loc, outcome>>
       ELSE /\ Finish("failure")
            /\ UNCHANGED sets
    /\ UNCHANGED <<chain, files, env, locals, runs, prev>>

\* main.py:323-333 and 350-360: ipset restore adds the ranges one by one and
\* stops at the first one that is rejected (added: how many went in)
ApplyRestore(added) ==
    /\ pc = "ap_restore"
    /\ added \in 0..Len(CurRanges)
    /\ Outcome(added = Len(CurRanges))
    /\ sets' = [sets EXCEPT ![CurSet].members = @ \cup Range(SubSeq(CurRanges, 1, added))]
    /\ IF added = Len(CurRanges)
       THEN LET a == AfterFam(loc.i, loc.fam)
                p == ApplyPos(country_ip_ranges, a.i, a.fam)
            IN  /\ pc' = IF p.i > Len(country_ip_ranges) THEN "su_stateful" ELSE "ap_create"
                /\ loc' = [Loc0 EXCEPT !.i = IF p.i > Len(country_ip_ranges) THEN 0 ELSE p.i,
                                       !.fam = p.fam]
                /\ UNCHANGED outcome
       ELSE Finish("failure")
    /\ g' = Note(added = Len(CurRanges),
                 [g EXCEPT !.kmut = TRUE, !.entered = IF pc' = "su_stateful" THEN "setup" ELSE @,
                           !.failed_at = IF added = Len(CurRanges) THEN @ ELSE "apply"])
    /\ UNCHANGED <<chain, files, env, locals, runs, prev>>


(***************************************************************************)
(* setup_firewall_rules, main.py:370-844.  Every step is one append        *)
(* (iptables -A INPUT / ip6tables -A INPUT); a rejected append ends the    *)
(* run in failure.                                                         *)
(***************************************************************************)
AppendRule(fam, rule) == [chain EXCEPT ![fam] = Append(@, rule)]

\* one append and where the run goes after it
AppendStep(ok, fam, rule, nextPc, nextLoc) ==
    /\ Outcome(ok)
    /\ g' = Note(ok, [g EXCEPT !.kmut = TRUE, !.appended = TRUE])
    /\ IF ok
       THEN /\ chain' = AppendRule(fam, rule)
            /\ pc' = nextPc
            /\ loc' = nextLoc
            /\ UNCHANGED outcome
       ELSE /\ Finish("failure")
            /\ UNCHANGED chain
    /\ UNCHANGED <<sets, files, env, locals, runs, prev>>

\* mutant: the allowed countries are not taken out of the blocked ones
blocked_countries_unfiltered == ALL_COUNTRIES

\* mutant: the filter is inverted, the allowed countries are the blocked ones
blocked_countries_inverted == SelectSeq(ALL_COUNTRIES, LAMBDA c : c \in Range(allowed))

\* main.py:513
blocked_countries == SelectSeq(ALL_COUNTRIES, LAMBDA c : c \notin Range(allowed))

\* the next (entry, family) of a country list, at or after (i, fam), whose set
\* exists (ipset list NAME answers 0); i past the end of the list when none does
RECURSIVE CountryPos(_, _, _)
CountryPos(list, i, fam) ==
    IF i > Len(list) THEN [i |-> i, fam |-> "v4"]
    ELSE IF InKernel(SetName(list[i], fam)) THEN [i |-> i, fam |-> fam]
    ELSE IF fam = "v4" THEN CountryPos(list, i, "v6")
    ELSE CountryPos(list, i + 1, "v4")

FinalStage == [pc |-> "su_final", loc |-> [Loc0 EXCEPT !.fam = "v4", !.sub = "log"]]

BlockStage(i, fam) ==
    LET p == CountryPos(blocked_countries, i, fam)
    IN  IF p.i > Len(blocked_countries) THEN FinalStage
        ELSE [pc |-> "su_block", loc |-> [Loc0 EXCEPT !.i = p.i, !.fam = p.fam, !.sub = "log"]]

AllowStage(i, fam) ==
    LET p == CountryPos(allowed, i, fam)
    IN  IF p.i > Len(allowed) THEN BlockStage(1, "v4")
        ELSE [pc |-> "su_allow", loc |-> [Loc0 EXCEPT !.i = p.i, !.fam = p.fam, !.sub = "log"]]

PrivateNetworks(fam) == IF fam = "v4" THEN PRIVATE_NETWORKS_V4 ELSE PRIVATE_NETWORKS_V6

PrivateStage(i, fam) ==
    IF i <= Len(PrivateNetworks(fam))
    THEN [pc |-> "su_private", loc |-> [Loc0 EXCEPT !.i = i, !.fam = fam]]
    ELSE IF fam = "v4" /\ PRIVATE_NETWORKS_V6 # <<>>
    THEN [pc |-> "su_private", loc |-> [Loc0 EXCEPT !.i = 1, !.fam = "v6"]]
    ELSE AllowStage(1, "v4")

\* main.py:373-419
SetupStateful(ok) ==
    /\ pc = "su_stateful"
    /\ AppendStep(ok, loc.fam, StatefulRule,
                  IF loc.fam = "v4" THEN "su_stateful" ELSE "su_localhost",
                  IF loc.fam = "v4" THEN [Loc0 EXCEPT !.fam = "v6"] ELSE Loc0)

\* main.py:421-463
SetupLocalhost(ok) ==
    /\ pc = "su_localhost"
    /\ AppendStep(ok, loc.fam, LocalhostRule,
                  IF loc.fam = "v4" THEN "su_localhost"
                  ELSE IF PRIVATE_NETWORKS_V4 # <<>> THEN "su_private"
                  ELSE PrivateStage(1, "v4").pc,
                  IF loc.fam = "v4" THEN [Loc0 EXCEPT !.fam = "v6"]
                  ELSE PrivateStage(1, "v4").loc)

\* main.py:466-510
SetupPrivate(ok) ==
    /\ pc = "su_private"
    /\ AppendStep(ok, loc.fam, PrivateRule(PrivateNetworks(loc.fam)[loc.i]),
                  PrivateStage(loc.i + 1, loc.fam).pc, PrivateStage(loc.i + 1, loc.fam).loc)

\* main.py:515-633: per allowed country whose set exists, a log rule then an accept rule
SetupAllowed(ok) ==
    /\ pc = "su_allow"
    /\ LET country == allowed[loc.i]
           after == AfterFam(loc.i, loc.fam)
       IN  IF loc.sub = "log"
           THEN AppendStep(ok, loc.fam, CountryLogRule(country, loc.fam, "ACCEPT"),
                           "su_allow", [loc EXCEPT !.sub = "act"])
           ELSE AppendStep(ok, loc.fam, CountryAcceptRule(country, loc.fam),
                           AllowStage(after.i, after.fam).pc, AllowStage(after.i, after.fam).loc)

\* main.py:635-753: per blocked country whose set exists, a log rule then a drop rule
SetupBlocked(ok) ==
    /\ pc = "su_block"
    /\ LET country == blocked_countries[loc.i]
           after == AfterFam(loc.i, loc.fam)
       IN  IF loc.sub = "log"
           THEN AppendStep(ok, loc.fam, CountryLogRule(country, loc.fam, "DROP"),
                           "su_block", [loc EXCEPT !.sub = "act"])
           ELSE AppendStep(ok, loc.fam, CountryDropRule(country, loc.fam),
                           BlockStage(after.i, after.fam).pc, BlockStage(after.i, after.fam).loc)

\* main.py:757-844 and 925-929: the final log and drop of each family, then success
SetupFinal(ok) ==
    /\ pc = "su_final"
    /\ IF loc.sub = "log"
       THEN AppendStep(ok, loc.fam, FinalLogRule, "su_final", [loc EXCEPT !.sub = "act"])
       ELSE IF loc.fam = "v4"
       THEN AppendStep(ok, loc.fam, FinalDropRule, "su_final",
                       [Loc0 EXCEPT !.fam = "v6", !.sub = "log"])
       ELSE /\ Outcome(ok)
            /\ g' = Note(ok, [g EXCEPT !.kmut = TRUE, !.appended = TRUE])
            /\ chain' = IF ok THEN AppendRule(loc.fam, FinalDropRule) ELSE chain
            /\ Finish(IF ok THEN "success" ELSE "failure")
            /\ UNCHANGED <<sets, files, env, locals, runs, prev>>

(***************************************************************************)
(* The end of a run, and what happens outside the runs.                    *)
(***************************************************************************)
\* main.py:936-938: the run is interrupted (or killed) at a step boundary
Interrupt ==
    /\ pc \notin { "idle", "done" }
    /\ faults < MaxFaults
    /\ faults' = faults + 1
    /\ g' = [g EXCEPT !.faulted = TRUE]
    /\ Finish("interrupted")
    /\ UNCHANGED <<kernel, files, env, locals, runs, prev>>

\* the process is gone; the scheduler may start the next run
Exit ==
    /\ pc = "done"
    /\ pc' = "idle"
    /\ country_ip_ranges' = <<>>
    /\ ALL_COUNTRIES' = <<>>
    /\ UNCHANGED <<kernel, files, env, loc, outcome, runs, faults, g, prev>>

\* the publisher replaces the remote database, or the month turns
RemoteChange(r) ==
    /\ pc = "idle"
    /\ envs < MaxEnv
    /\ r \in Remotes /\ r # remote
    /\ remote' = r
    /\ envs' = envs + 1
    /\ streak' = 0
    /\ UNCHANGED <<kernel, files, allowed, pc, loc, locals, outcome, runs, faults, g, prev>>

\* a reboot loses the address sets and the tagged rules
Reboot ==
    /\ pc = "idle"
    /\ envs < MaxEnv
    /\ runs > 0
    /\ chain' = [f \in {"v4", "v6"} |-> SelectSeq(chain[f], LAMBDA r : ~IsTagged(r))]
    /\ sets' = WithSet(<<>>, ForeignSet, NewSet(8))
    /\ envs' = envs + 1
    /\ streak' = 0
    /\ UNCHANGED <<files, remote, allowed, pc, loc, locals, outcome, runs, faults, g, prev>>

\* the database file is removed by hand
RemoveDatabase ==
    /\ pc = "idle"
    /\ envs < MaxEnv
    /\ mmdb # Absent
    /\ mmdb' = Absent
    /\ envs' = envs + 1
    /\ streak' = 0
    /\ UNCHANGED <<kernel, hashFile, lastCheck, remote, allowed, pc, loc, locals, outcome,
                   runs, faults, g, prev>>

Next ==
    \/ \E ok \in BOOLEAN : SmartUpdateStart(ok)
    \/ RebootHash
    \/ FirstUnlink
    \/ \E ok \in BOOLEAN : CheckRemote(ok)
    \/ \E res \in { "ok", "refused", "truncated" } : Download(res)
    \/ \E ok \in BOOLEAN : HashCheck(ok)
    \/ \E readable \in BOOLEAN : Parse(readable)
    \/ \E ok \in BOOLEAN : CleanupScan(ok)
    \/ \E ok \in BOOLEAN : CleanupDelete(ok)
    \/ \E ok \in BOOLEAN : CleanupListSets(ok)
    \/ \E ok \in BOOLEAN : CleanupDestroy(ok)
    \/ CleanupReturn
    \/ ApplyBegin
    \/ \E ok \in BOOLEAN : ApplyCreate(ok)
    \/ \E ok \in BOOLEAN : ApplyFlush(ok)
    \/ \E added \in 0..2 : ApplyRestore(added)
    \/ \E ok \in BOOLEAN : SetupStateful(ok)
    \/ \E ok \in BOOLEAN : SetupLocalhost(ok)
    \/ \E ok \in BOOLEAN : SetupPrivate(ok)
    \/ \E ok \in BOOLEAN : SetupAllowed(ok)
    \/ \E ok \in BOOLEAN : SetupBlocked(ok)
    \/ \E ok \in BOOLEAN : SetupFinal(ok)
    \/ Interrupt
    \/ Exit
    \/ \E r \in Remotes : RemoteChange(r)
    \/ Reboot
    \/ RemoveDatabase

Spec == Init /\ [][Next]_vars

(***************************************************************************)
(* One rebuild started on a chain that mixes tagged rules with the rules   *)
(* of other systems in every order: the sets of an earlier generation are  *)
(* in the kernel, the database file is gone, so the run downloads, parses, *)
(* cleans up, applies and appends.                                         *)
(***************************************************************************)
ChainRules == { ForeignRule, OtherRule, StatefulRule, CountryDropRule("KR", "v4"), FinalDropRule }

Chains(n) == UNION { [1..k -> ChainRules] : k \in 0..n }

MixedChainV6 == << CountryDropRule("KR", "v6"), OtherRule, StatefulRule, FinalDropRule, ForeignRule >>

InitChains ==
    /\ chain \in { [f \in {"v4", "v6"} |-> IF f = "v4" THEN c ELSE MixedChainV6] : c \in Chains(MaxChain) }
    /\ sets = [n \in { ForeignSet, SetName("KR", "v4"), SetName("KR", "v6"), SetName("US", "v4") } |->
                 IF n = ForeignSet THEN NewSet(8)
                 ELSE [maxelem |-> 1,
                       members |-> IF n = SetName("KR", "v4") THEN {"1.0.0.0/24"}
                                   ELSE IF n = SetName("KR", "v6") THEN {"2001:db8::/32"}
                                   ELSE {"2.0.0.0/24"}]]
    /\ mmdb = Absent
    /\ hashFile = NoFile
    /\ lastCheck = NoFile
    /\ remote = Remote(<<"Mon">>, <<"100">>, "DbA")
    /\ allowed = <<"KR">>
    /\ pc = "idle"
    /\ loc = Loc0
    /\ country_ip_ranges = <<>>
    /\ ALL_COUNTRIES = <<>>
    /\ outcome = "none"
    /\ runs = MaxRuns - 1 /\ faults = 0 /\ envs = MaxEnv /\ streak = 0
    /\ g = G0
    /\ prev = Prev0

NextChains ==
    \/ \E ok \in BOOLEAN : SmartUpdateStart(ok)
    \/ FirstUnlink
    \/ \E res \in { "ok", "refused", "truncated" } : Download(res)
    \/ \E readable \in BOOLEAN : Parse(readable)
    \/ \E ok \in BOOLEAN : CleanupScan(ok)
    \/ \E ok \in BOOLEAN : CleanupDelete(ok)
    \/ \E ok \in BOOLEAN : CleanupListSets(ok)
    \/ \E ok \in BOOLEAN : CleanupDestroy(ok)
    \/ CleanupReturn
    \/ ApplyBegin
    \/ \E ok \in BOOLEAN : ApplyCreate(ok)
    \/ \E ok \in BOOLEAN : ApplyFlush(ok)
    \/ \E added \in 0..2 : ApplyRestore(added)
    \/ \E ok \in BOOLEAN : SetupStateful(ok)
    \/ \E ok \in BOOLEAN : SetupLocalhost(ok)
    \/ \E ok \in BOOLEAN : SetupPrivate(ok)
    \/ \E ok \in BOOLEAN : SetupAllowed(ok)
    \/ \E ok \in BOOLEAN : SetupBlocked(ok)
    \/ \E ok \in BOOLEAN : SetupFinal(ok)
    \/ Interrupt
    \/ Exit

SpecChains == InitChains /\ [][NextChains]_vars

(***************************************************************************)
(* The same rebuild with a kernel that may reject a delete any number of   *)
(* times (the rejections above are counted and bounded).  The process is   *)
(* scheduled as long as it has a step to take.                             *)
(***************************************************************************)
\* main.py:225-231 and 248-253: the delete is rejected, its result is not looked
\* at, found is set and the loop lists the chain again
CleanupDeleteRejected ==
    /\ pc = "cl_del"
    /\ g' = [g EXCEPT !.kmut = TRUE, !.faulted = TRUE]
    /\ pc' = "cl_scan"
    /\ loc' = [loc EXCEPT !.line_num = 0]
    /\ UNCHANGED <<kernel, files, env, locals, outcome, runs, faults, prev>>

NextLive ==
    \/ NextChains
    \/ CleanupDeleteRejected

SpecLive == InitChains /\ [][NextLive]_vars /\ WF_vars(NextLive)

(***************************************************************************)
(* Two invocations at once.  Nothing in main.py keeps a second process     *)
(* from starting while the first one runs (no lock file, no flock): both   *)
(* are in the scan-and-delete loops of cleanup_existing_ipsets on the same *)
(* chains.  Here pc and loc hold one entry per process, loc[p].stdout is   *)
(* the listing the process took its line number from, and g.stale records  *)
(* that a delete went out after the chain had changed under that listing.  *)
(***************************************************************************)
MaxProcs == 2

Procs == 1..MaxProcs

ProcLoc0 == [fam |-> "v4", phase |-> "drop", line_num |-> 0, stdout |-> <<>>]

InitProcs ==
    /\ chain \in { [f \in {"v4", "v6"} |-> IF f = "v4" THEN c ELSE MixedChainV6] : c \in Chains(MaxChain) }
    /\ sets = [n \in { ForeignSet } |-> NewSet(8)]
    /\ mmdb = "DbA"
    /\ hashFile = NoFile
    /\ lastCheck = NoFile
    /\ remote = Remote(<<"Mon">>, <<"100">>, "DbA")
    /\ allowed = <<"KR">>
    /\ pc = [p \in Procs |-> "cl_scan"]
    /\ loc = [p \in Procs |-> ProcLoc0]
    /\ country_ip_ranges = parse_mmdb_to_country_ipranges("DbA", TRUE)
    /\ ALL_COUNTRIES = Keys(country_ip_ranges)
    /\ outcome = "none"
    /\ runs = MaxRuns /\ faults = 0 /\ envs = MaxEnv /\ streak = 0
    /\ g = [G0 EXCEPT !.kind = "reboot", !.chain0 = chain, !.sets0 = sets, !.mmdb0 = mmdb]
    /\ prev = Prev0

\* main.py:215-233 and 237-255, process p
ScanBy(p, ok) ==
    /\ pc[p] = "cl_scan"
    /\ Outcome(ok)
    /\ g' = Note(ok, g)
    /\ LET stdout == IF ok THEN Listing(chain[loc[p].fam]) ELSE <<>>
           line_num == FirstMatch(stdout, Needle(loc[p].phase))
       IN  IF line_num > 0
           THEN /\ pc' = [pc EXCEPT ![p] = "cl_del"]
                /\ loc' = [loc EXCEPT ![p].line_num = line_num, ![p].stdout = stdout]
           ELSE /\ pc' = [pc EXCEPT ![p] = AfterScan(loc[p]).pc]
                /\ loc' = [loc EXCEPT ![p] = AfterScan(loc[p]).loc]
    /\ UNCHANGED <<kernel, files, env, locals, outcome, runs, prev>>

\* main.py:225-231 and 248-253, process p: the line number is the one of its
\* own listing, whatever the chain is by now
DeleteBy(p, ok) ==
    /\ pc[p] = "cl_del"
    /\ Outcome(ok)
    /\ g' = Note(ok, [g EXCEPT !.kmut = TRUE,
                               !.stale = @ \/ (ok /\ Listing(chain[loc[p].fam]) # loc[p].stdout)])
    /\ chain' = IF ok THEN [chain EXCEPT ![loc[p].fam] = DeleteAt(@, loc[p].line_num)] ELSE chain
    /\ pc' = [pc EXCEPT ![p] = "cl_scan"]
    /\ loc' = [loc EXCEPT ![p].line_num = 0]
    /\ UNCHANGED <<sets, files, env, locals, outcome, runs, prev>>

NextProcs ==
    \/ \E p \in Procs, ok \in BOOLEAN : ScanBy(p, ok)
    \/ \E p \in Procs, ok \in BOOLEAN : DeleteBy(p, ok)

SpecProcs == InitProcs /\ [][NextProcs]_vars


(***************************************************************************)
(* Vocabulary of the claims.                                               *)
(***************************************************************************)
Families == {"v4", "v6"}

Ended == pc = "done"

Marked(r) == r.comment # <<>> /\ Head(r.comment) = Tag

MarkedDrop(r) == Marked(r) /\ r.target = "DROP"

Generation(rules) == SelectSeq(rules, Marked)

Positions(rules, P(_)) == { k \in 1..Len(rules) : P(rules[k]) }

IsStatefulAccept(r) == Marked(r) /\ r.target = "ACCEPT" /\ r.match = <<"ctstate", "ESTABLISHED,RELATED">>

IsDefaultDrop(r) == MarkedDrop(r) /\ r.set = <<>>

IsCountryAccept(r) == Marked(r) /\ r.target = "ACCEPT" /\ r.set # <<>>

IsCountryDrop(r) == MarkedDrop(r) /\ r.set # <<>>

\* the chain the run started from is a complete generation
StartedComplete ==
    \A f \in Families :
        /\ Positions(g.chain0[f], IsStatefulAccept) # {}
        /\ Positions(g.chain0[f], IsDefaultDrop) # {}

\* the log + verdict pairs of a country list, for the countries whose set is in names
RECURSIVE CountryRules(_, _, _, _)
CountryRules(list, fam, verdict, names) ==
    IF list = <<>> THEN <<>>
    ELSE (IF SetName(Head(list), fam) \in names
          THEN << CountryLogRule(Head(list), fam, verdict),
                  IF verdict = "ACCEPT" THEN CountryAcceptRule(Head(list), fam)
                  ELSE CountryDropRule(Head(list), fam) >>
          ELSE <<>>)
         \o CountryRules(Tail(list), fam, verdict, names)

\* the generation in its fixed order: stateful, loopback, private networks,
\* allowed countries, blocked countries, final log, final drop
FixedOrder(fam, allow, all, names) ==
    << StatefulRule, LocalhostRule >>
    \o [k \in 1..Len(PrivateNetworks(fam)) |-> PrivateRule(PrivateNetworks(fam)[k])]
    \o CountryRules(allow, fam, "ACCEPT", names)
    \o CountryRules(SelectSeq(all, LAMBDA c : \A k \in 1..Len(allow) : allow[k] # c),
                    fam, "DROP", names)
    \o << FinalLogRule, FinalDropRule >>

\* the sets a database file gives rise to
NamesOf(file) ==
    LET m == parse_mmdb_to_country_ipranges(file, TRUE)
    IN  UNION { { SetName(m[k].cc, f) : f \in { h \in {"v4", "v6"} : FamRanges(m[k].ranges, h) # <<>> } }
                : k \in 1..Len(m) }

(***************************************************************************)
(* C1.  During a full rebuild that starts from a complete chain, every     *)
(* step boundary of the run still shows a tagged drop rule in the chain    *)
(* of each family (stated for the runs in which no command fails).         *)
(* Refuted: cleanup deletes every tagged drop rule before any new rule is  *)
(* appended.                                                               *)
(***************************************************************************)
C1_DropNeverAbsent ==
    (pc # "idle" /\ g.entered # "" /\ StartedComplete /\ faults = 0)
        => \A f \in Families : Positions(chain[f], MarkedDrop) # {}

(***************************************************************************)
(* C2.  In every state, in each family: if the chain holds a rule tagged   *)
(* geoip-firewall-drop, it holds the tagged stateful accept at a lower     *)
(* position than every tagged drop rule.                                   *)
(* Refuted: when the listing of the first cleanup loop fails, the second   *)
(* loop deletes the stateful accept while the drop rules are in place.     *)
(***************************************************************************)
C2_StatefulBeforeDrops ==
    \A f \in Families :
        Positions(chain[f], MarkedDrop) # {}
            => \E s \in Positions(chain[f], IsStatefulAccept) :
                   \A d \in Positions(chain[f], MarkedDrop) : s < d

(***************************************************************************)
(* C3.  When setup_firewall_rules has returned success on a chain that     *)
(* cleanup left without tagged rules, the tagged rules of each family are  *)
(* exactly: stateful accept, loopback accept, the private networks, a log  *)
(* and accept pair per allowed country with a set, a log and drop pair per *)
(* blocked country with a set, the final log, the final drop; the stateful *)
(* accept is before the default drop and every country accept is before    *)
(* every drop.                                                             *)
(***************************************************************************)
SetupSucceededOnCleanChain ==
    Ended /\ outcome = "success" /\ g.entered = "setup" /\ g.cleaned

C4_FailureKeepsPreviousRules ==
    (Ended /\ outcome = "failure" /\ StartedComplete)
        => \A f \in Families :
               \A k \in Positions(g.chain0[f], Marked) :
                   g.chain0[f][k].target \in {"ACCEPT", "DROP"}
                       => Positions(chain[f], LAMBDA r : r = g.chain0[f][k]) # {}

(***************************************************************************)
(* C5.  When a run ends in success, the tagged rules of each family are a  *)
(* complete chain in the fixed order, for the countries of the database    *)
(* file on disk and the allow-list.                                        *)
(* Refuted: a run that finds nothing changed reports success over the      *)
(* partial chain an earlier failed run left.                               *)
(***************************************************************************)
C5_SuccessMeansComplete ==
    (Ended /\ outcome = "success")
        => \A f \in Families :
               Generation(chain[f])
                   = FixedOrder(f, allowed, Keys(parse_mmdb_to_country_ipranges(mmdb, TRUE)),
                                NamesOf(mmdb))


(***************************************************************************)
(* C6.  Of two runs in succession, with nothing changed by the environment *)
(* in between, the second issues no mutating kernel command.               *)
(* Refuted: a first install writes neither the fingerprint nor the hash,   *)
(* so the run after it downloads again and rebuilds everything.            *)
(***************************************************************************)
C6_SecondRunMutatesNothing ==
    (Ended /\ streak >= 2 /\ faults = 0 /\ prev.outcome = "success") => ~g.kmut

(***************************************************************************)
(* C7.  A run that ends in failure or is interrupted leaves the            *)
(* fingerprint file and the hash file as they were when it started         *)
(* (stated for the steady-state runs, the ones that consult the change     *)
(* detector).                                                              *)
(* Refuted: the fingerprint is written when the change is detected, before *)
(* the download, and the hash before the rebuild.                          *)
(***************************************************************************)
C7_FingerprintKeptOnFailure ==
    (Ended /\ outcome \in {"failure", "interrupted"} /\ g.kind = "steady")
        => lastCheck = g.last0 /\ hashFile = g.hash0

(***************************************************************************)
(* C8.  After a steady-state run that detected a remote change and then    *)
(* failed or was interrupted, the next run, with the remote unchanged,     *)
(* downloads again and does not end as "no update needed".                 *)
(* Refuted: the failed run has already stored the new fingerprint.         *)
(***************************************************************************)
C8_FailedUpdateIsRetried ==
    (/\ Ended /\ streak >= 2 /\ ~g.faulted
     /\ prev.kind = "steady" /\ prev.detected /\ prev.outcome \in {"failure", "interrupted"}
     /\ g.kind = "steady")
        => g.get /\ g.noupdate = ""

(***************************************************************************)
(* C9.  A run that starts with a country set in the kernel and a database  *)
(* file, and whose remote check reads the metadata the fingerprint file    *)
(* holds (its text as the check reads it, stripped), downloads nothing,   *)
(* issues no mutating kernel command, leaves the three files and the       *)
(* kernel state as they were, and ends in success.                         *)
(***************************************************************************)
CountrySetsOf(ss) == { n \in DOMAIN ss : n # <<>> /\ Head(n) = "country-" }

SteadyAndUnchanged ==
    /\ pc # "idle"
    /\ g.kind = "steady"
    /\ CountrySetsOf(g.sets0) # {} /\ g.mmdb0 # Absent
    /\ remote.published
    /\ g.last0.exists
    /\ Strip(g.last0.text) = remote.last_modified \o <<"|">> \o remote.content_length

C9_UnchangedRunTouchesNothing ==
    SteadyAndUnchanged =>
        /\ ~g.get /\ ~g.kmut
        /\ chain = g.chain0 /\ sets = g.sets0
        /\ mmdb = g.mmdb0 /\ lastCheck = g.last0 /\ hashFile = g.hash0
        /\ (Ended /\ ~g.faulted) => (outcome = "success" /\ g.head)

C9_Witness ==
    /\ SteadyAndUnchanged /\ Ended /\ ~g.faulted /\ g.head
    /\ outcome = "success"
    /\ Positions(chain["v4"], IsDefaultDrop) # {}

(***************************************************************************)
(* C10.  A run that starts with no country set in the kernel and with the  *)
(* database file present makes no network call, neither the metadata       *)
(* check nor a download; when none of its commands fails and the file is   *)
(* readable, it ends in success with the address sets holding the ranges   *)
(* of that file and each chain holding the generation built from it.       *)
(***************************************************************************)
RebootRecovery ==
    /\ pc # "idle"
    /\ g.kind # ""
    /\ CountrySetsOf(g.sets0) = {} /\ g.mmdb0 # Absent

\* the members a database file gives the set of a country and family
MembersOf(file, name) ==
    LET m == parse_mmdb_to_country_ipranges(file, TRUE)
    IN  UNION { { r \in Range(m[k].ranges) :
                    \E f \in Families : name = SetName(m[k].cc, f) /\ HasColon(r) = (f = "v6") }
                : k \in 1..Len(m) }

RebuiltFrom(file) ==
    /\ CountrySetsOf(sets) = NamesOf(file)
    /\ \A n \in NamesOf(file) : sets[n].members = MembersOf(file, n)
    /\ \A f \in Families :
           Generation(chain[f])
               = FixedOrder(f, allowed, Keys(parse_mmdb_to_country_ipranges(file, TRUE)),
                            NamesOf(file))

C10_RebootRecoveryOffline ==
    RebootRecovery =>
        /\ ~g.head /\ ~g.get
        /\ mmdb = g.mmdb0
        /\ (Ended /\ ~g.faulted /\ g.mmdb0 # Corrupt)
               => (outcome = "success" /\ RebuiltFrom(g.mmdb0))

C10_Witness ==
    /\ RebootRecovery /\ Ended /\ ~g.faulted
    /\ outcome = "success"
    /\ g.kmut
    /\ RebuiltFrom(g.mmdb0)

(***************************************************************************)
(* C11.  A steady-state run that finds the remote metadata different from  *)
(* the fingerprint file (or finds no fingerprint file), while the hash     *)
(* file holds the hash of the content the remote serves, issues no         *)
(* mutating kernel command: the chains and the sets stay as they were,     *)
(* cleanup is not entered, and the run, when none of its commands fails,   *)
(* downloads and ends in success as "same file".                           *)
(***************************************************************************)
MetadataChangedContentSame ==
    /\ pc # "idle"
    /\ g.kind = "steady"
    /\ CountrySetsOf(g.sets0) # {} /\ g.mmdb0 # Absent
    /\ remote.published
    /\ ~(g.last0.exists
         /\ Strip(g.last0.text) = remote.last_modified \o <<"|">> \o remote.content_length)
    /\ g.hash0.exists
    /\ Strip(g.hash0.text) = calculate_file_hash(remote.db)

C11_SameContentTouchesNothing ==
    MetadataChangedContentSame =>
        /\ ~g.kmut /\ g.entered = ""
        /\ chain = g.chain0 /\ sets = g.sets0
        /\ (Ended /\ ~g.faulted)
               => (outcome = "success" /\ g.detected /\ g.get /\ g.noupdate = "hash")

C11_Witness ==
    /\ MetadataChangedContentSame /\ Ended /\ ~g.faulted
    /\ g.last0.exists
    /\ outcome = "success" /\ g.get /\ g.noupdate = "hash"
    /\ Positions(chain["v4"], IsDefaultDrop) # {}

(***************************************************************************)
(* C12.  A steady-state run whose metadata request is answered with HTTP   *)
(* 404 downloads nothing, issues no mutating kernel command, leaves the    *)
(* chains, the sets and the fingerprint file as they were, and ends in     *)
(* success (unless it is interrupted or the request itself fails).         *)
(***************************************************************************)
SteadyAndNotPublished ==
    /\ pc # "idle"
    /\ g.kind = "steady"
    /\ CountrySetsOf(g.sets0) # {} /\ g.mmdb0 # Absent
    /\ ~remote.published

C12_NotFoundIsNoChange ==
    SteadyAndNotPublished =>
        /\ ~g.get /\ ~g.kmut /\ ~g.detected
        /\ chain = g.chain0 /\ sets = g.sets0
        /\ lastCheck = g.last0 /\ hashFile = g.hash0 /\ mmdb = g.mmdb0
        /\ (Ended /\ ~g.faulted) => (outcome = "success" /\ g.head /\ g.noupdate = "remote")

C12_Witness ==
    /\ SteadyAndNotPublished /\ Ended /\ ~g.faulted
    /\ g.head /\ outcome = "success"
    /\ g.last0.exists

(***************************************************************************)
(* C13.  As claimed: a run whose remote metadata check failed goes on to   *)
(* the download, and a run whose content-hash check failed goes on to the  *)
(* rebuild.                                                                *)
(* Refuted: both errors are raised up to main, which exits with 1.         *)
(***************************************************************************)
C13_DetectorsAreAdvisory ==
    /\ (Ended /\ g.failed_at = "remote") => g.get
    /\ (Ended /\ g.failed_at = "hash") => g.entered # ""

(***************************************************************************)
(* C13, amended.  A failed remote metadata check (an error other than HTTP *)
(* 404) or a failed content-hash check ends the run in failure at that     *)
(* check: no download after the failed metadata check, no rebuild and no   *)
(* mutating kernel command after either, and the file of the failed check  *)
(* is not written.  Only a missing baseline is taken as "changed": with no *)
(* fingerprint file the metadata check reports a change, and with no hash  *)
(* file a run that downloaded goes on to the rebuild.                      *)
(***************************************************************************)
C13_FailedCheckAborts ==
    /\ (pc # "idle" /\ g.failed_at = "remote")
           => /\ Ended /\ outcome = "failure"
              /\ ~g.get /\ ~g.kmut /\ g.entered = "" /\ g.noupdate = ""
              /\ chain = g.chain0 /\ sets = g.sets0 /\ lastCheck = g.last0
    /\ (pc # "idle" /\ g.failed_at = "hash")
           => /\ Ended /\ outcome = "failure"
              /\ ~g.kmut /\ g.entered = "" /\ g.noupdate = ""
              /\ chain = g.chain0 /\ sets = g.sets0 /\ hashFile = g.hash0
    /\ (pc # "idle" /\ g.kind = "steady" /\ g.head /\ g.failed_at # "remote"
        /\ remote.published /\ ~g.last0.exists)
           => g.detected
    /\ (Ended /\ g.kind = "steady" /\ ~g.faulted /\ g.get /\ g.failed_at = ""
        /\ ~g.hash0.exists)
           => g.entered # ""

C13_Witness ==
    /\ Ended /\ outcome = "failure"
    /\ g.kind = "steady" /\ g.failed_at = "remote"
    /\ Positions(chain["v4"], IsDefaultDrop) # {}

(***************************************************************************)
(* C14.  Once a create, a flush or a restore of apply_native_ipset has     *)
(* failed, the run has ended in failure, setup_firewall_rules was not      *)
(* entered and no append was issued in the run.                            *)
(***************************************************************************)
C14_ApplyFailureEndsTheRun ==
    (pc # "idle" /\ g.failed_at = "apply")
        => /\ Ended /\ outcome = "failure"
           /\ g.entered = "apply" /\ ~g.appended

C14_Witness ==
    /\ Ended /\ g.failed_at = "apply" /\ outcome = "failure"
    /\ CountrySetsOf(sets) # {}
    /\ StartedComplete

(***************************************************************************)
(* C15.  Once the download has failed or the reader has returned an empty  *)
(* map, the run has ended in failure without a mutating kernel command:    *)
(* cleanup was not entered, the chains and the sets are as they were when  *)
(* the run started.                                                        *)
(***************************************************************************)
C15_NoDatabaseNoMutation ==
    (pc # "idle" /\ g.failed_at \in {"download", "parse"})
        => /\ Ended /\ outcome = "failure"
           /\ ~g.kmut /\ ~g.appended /\ g.entered = ""
           /\ chain = g.chain0 /\ sets = g.sets0

C15_Witness ==
    /\ Ended /\ g.failed_at = "parse" /\ outcome = "failure"
    /\ StartedComplete
    /\ CountrySetsOf(sets) # {}

(***************************************************************************)
(* C16.  When apply_native_ipset has returned success, for every country   *)
(* of the map and each family in which it has a prefix, the set of that    *)
(* country and family is in the kernel and its members are exactly the     *)
(* country's prefixes of that family: no prefix of the other family, no    *)
(* member kept from an earlier generation.                                 *)
(***************************************************************************)
ApplySucceeded == pc # "idle" /\ g.entered = "setup"

PrefixesOf(ranges, fam) == { r \in Range(ranges) : HasColon(r) = (fam = "v6") }

C16_SetsHoldExactlyTheMap ==
    ApplySucceeded =>
        \A k \in 1..Len(country_ip_ranges) : \A f \in Families :
            LET name == SetName(country_ip_ranges[k].cc, f)
                want == PrefixesOf(country_ip_ranges[k].ranges, f)
            IN  want # {} =>
                    /\ name \in DOMAIN sets
                    /\ sets[name].members = want
                    /\ \A p \in sets[name].members : HasColon(p) = (f = "v6")

C16_Witness ==
    /\ ApplySucceeded /\ Ended /\ outcome = "success"
    /\ g.mmdb0 = "DbA" /\ mmdb = "DbB"
    /\ SetName("US", "v4") \in DOMAIN g.sets0
    /\ g.sets0[SetName("US", "v4")].members # sets[SetName("US", "v4")].members
    /\ SetName("CN", "v6") \in DOMAIN sets

(***************************************************************************)
(* C17.  In a rebuild started on a chain that mixes tagged rules with      *)
(* rules of other systems, the rules without the marker stay in the chain, *)
(* in their order, through cleanup and through the appends; when no        *)
(* command of the run was rejected, cleanup returns with the chain holding *)
(* exactly the rules without the marker, and from then on the chain is     *)
(* those rules followed by the tagged rules appended in the run.           *)
(***************************************************************************)
Untagged(rules) == SelectSeq(rules, LAMBDA r : ~Marked(r))

C17_CleanupDeletesTaggedOnly ==
    (pc # "idle" /\ g.kind # "") =>
        \A f \in Families :
            /\ Untagged(chain[f]) = Untagged(g.chain0[f])
            /\ (pc = "apply" /\ ~g.faulted) => chain[f] = Untagged(g.chain0[f])
            /\ (g.entered \in {"apply", "setup"} /\ ~g.faulted) => g.cleaned
            /\ (g.entered \in {"apply", "setup"} /\ g.cleaned)
                   => chain[f] = Untagged(g.chain0[f]) \o Generation(chain[f])

C17_Witness ==
    /\ Ended /\ outcome = "success" /\ ~g.faulted
    /\ g.chain0["v4"] = << FinalDropRule, OtherRule, StatefulRule >>
    /\ Untagged(g.chain0["v6"]) = << OtherRule, ForeignRule >>
    /\ chain["v4"][1] = OtherRule
    /\ Positions(chain["v4"], IsDefaultDrop) # {}

(***************************************************************************)
(* C18.  After a first install with an empty allow-list in which no        *)
(* command failed, each family's chain holds no accept-by-country rule,    *)
(* one drop-by-country rule per country that has a prefix of that family   *)
(* and one default drop; for the database DbB, in which KR, US and CN each *)
(* have prefixes of both families, that is three drop-by-country rules per *)
(* family.                                                                 *)
(***************************************************************************)
FirstInstallEmptyAllowList ==
    /\ Ended /\ outcome = "success" /\ ~g.faulted
    /\ g.kind = "first" /\ g.mmdb0 = Absent /\ CountrySetsOf(g.sets0) = {}
    /\ allowed = <<>>

CountriesWith(fam) ==
    { k \in 1..Len(country_ip_ranges) : PrefixesOf(country_ip_ranges[k].ranges, fam) # {} }

C18_EmptyAllowListDropsAll ==
    FirstInstallEmptyAllowList =>
        \A f \in Families :
            /\ Positions(chain[f], IsCountryAccept) = {}
            /\ Cardinality(Positions(chain[f], IsCountryDrop)) = Cardinality(CountriesWith(f))
            /\ Cardinality(Positions(chain[f], IsDefaultDrop)) = 1
            /\ mmdb = "DbB" => Cardinality(Positions(chain[f], IsCountryDrop)) = 3

C18_Witness ==
    /\ FirstInstallEmptyAllowList
    /\ { country_ip_ranges[k].cc : k \in 1..Len(country_ip_ranges) } = {"KR", "US", "CN"}
    /\ \A f \in Families :
           /\ Cardinality(Positions(chain[f], IsCountryDrop)) = 3
           /\ Positions(chain[f], IsCountryAccept) = {}
           /\ Cardinality(Positions(chain[f], IsDefaultDrop)) = 1

(***************************************************************************)
(* C19.  When a steady-state run has detected a change and written the     *)
(* fingerprint, the metadata check of the run right after it, with the     *)
(* remote unchanged, reports no change and leaves the fingerprint file as  *)
(* it was (stated for the runs in which no command fails).                *)
(* Refuted: the fingerprint is written as read from the headers and        *)
(* stripped when it is read back; a header value that ends in white space  *)
(* never compares equal.                                                   *)
(***************************************************************************)
C19_FingerprintRoundTrip ==
    (/\ pc # "idle" /\ streak >= 2 /\ faults = 0
     /\ prev.kind = "steady" /\ prev.detected
     /\ g.kind = "steady" /\ g.head /\ g.failed_at # "remote"
     /\ remote.published)
        => ~g.detected /\ lastCheck = g.last0

(***************************************************************************)
(* C20.  A run that starts with no database file is a first install or the *)
(* inconsistent case; it never makes the metadata check and never ends as  *)
(* "no update needed"; when none of its commands fails it downloads, and   *)
(* when download and parse succeed it enters the rebuild; in the first     *)
(* install the fingerprint and hash files are gone when the download is    *)
(* made.                                                                   *)
(***************************************************************************)
DatabaseAbsentAtStart == pc # "idle" /\ g.kind # "" /\ g.mmdb0 = Absent

C20_NoDatabaseForcesDownload ==
    DatabaseAbsentAtStart =>
        /\ g.kind \in {"first", "inconsistent"}
        /\ CountrySetsOf(g.sets0) = {} => g.kind = "first"
        /\ (CountrySetsOf(g.sets0) # {} /\ ~g.faulted) => g.kind = "inconsistent"
        /\ ~g.head /\ ~g.detected /\ g.noupdate = ""
        /\ (g.kind = "first" /\ g.get) => (~lastCheck.exists /\ ~hashFile.exists)
        /\ (Ended /\ ~g.faulted) => g.get
        /\ (Ended /\ ~g.faulted /\ g.failed_at \notin {"download", "parse"}) => g.entered # ""

C20_Witness ==
    /\ DatabaseAbsentAtStart /\ Ended /\ ~g.faulted
    /\ g.kind = "inconsistent"
    /\ g.last0.exists /\ g.hash0.exists
    /\ g.get /\ outcome = "success"

(***************************************************************************)
(* C21.  A run that is in the scan-and-delete loops of cleanup leaves them *)
(* (for the set removal, or by being interrupted), whatever the chain and  *)
(* also when the kernel rejects deletes.                                   *)
(* Refuted: a rejected delete sets found all the same; while the kernel    *)
(* keeps rejecting the delete of a tagged rule the loop lists, finds the   *)
(* same line and tries again, without end.                                 *)
(***************************************************************************)
InRuleLoops == pc \in {"cl_scan", "cl_del"}

C21_CleanupTerminates == InRuleLoops ~> ~InRuleLoops

(***************************************************************************)
(* C22.  Invocations have to be serialized: with two of them in cleanup at *)
(* once there is an interleaving in which a delete, issued with a line     *)
(* number read before the other run's delete, removes a rule that does not *)
(* carry the marker (C22_Witness is that state).  It takes such a delete:  *)
(* in every state of two concurrent runs, when an untagged rule is gone    *)
(* from a chain, a delete went out with a line number of a listing the     *)
(* chain no longer matched.                                                *)
(***************************************************************************)
UntaggedLost == \E f \in Families : Untagged(chain[f]) # Untagged(g.chain0[f])

C22_OnlyStalePositionRemovesUntagged == UntaggedLost => g.stale

C22_Witness ==
    /\ UntaggedLost /\ g.stale /\ faults = 0
    /\ \A p \in Procs : pc[p] = "cl_list"

(***************************************************************************)
(* One steady-state run after the database lost something.  The kernel and *)
(* the files are as a successful install of DbB leaves them (Spec reaches  *)
(* that state); since then the publisher went back to DbA, in which US has *)
(* no IPv6 prefix and CN is not a country.                                 *)
(***************************************************************************)
\* the sets apply_native_ipset makes of a database file (main.py:308-356)
InstalledSets(file) ==
    [n \in { ForeignSet } \cup NamesOf(file) |->
        IF n = ForeignSet THEN NewSet(8)
        ELSE [maxelem |-> (Cardinality(MembersOf(file, n)) * 11) \div 10,
              members |-> MembersOf(file, n)]]

\* the rules setup_firewall_rules appends for that file (main.py:370-844)
InstalledChain(file, fam, allow) ==
    (IF fam = "v4" THEN <<ForeignRule>> ELSE <<>>)
    \o FixedOrder(fam, allow, Keys(parse_mmdb_to_country_ipranges(file, TRUE)), NamesOf(file))

InitShrink ==
    /\ allowed \in AllowLists
    /\ chain = [f \in {"v4", "v6"} |-> InstalledChain("DbB", f, allowed)]
    /\ sets = InstalledSets("DbB")
    /\ mmdb = "DbB"
    /\ hashFile = File(calculate_file_hash("DbB"))
    /\ lastCheck = File(CheckInfo(<<"Wed">>, <<"200">>))
    /\ remote = Remote(<<"Mon">>, <<"100">>, "DbA")
    /\ pc = "idle"
    /\ loc = Loc0
    /\ country_ip_ranges = <<>>
    /\ ALL_COUNTRIES = <<>>
    /\ outcome = "none"
    /\ runs = MaxRuns - 1 /\ faults = 0 /\ envs = MaxEnv /\ streak = 0
    /\ g = G0
    /\ prev = Prev0

NextShrink ==
    \/ \E ok \in BOOLEAN : SmartUpdateStart(ok)
    \/ \E ok \in BOOLEAN : CheckRemote(ok)
    \/ \E res \in { "ok", "refused", "truncated" } : Download(res)
    \/ \E ok \in BOOLEAN : HashCheck(ok)
    \/ \E readable \in BOOLEAN : Parse(readable)
    \/ \E ok \in BOOLEAN : CleanupScan(ok)
    \/ \E ok \in BOOLEAN : CleanupDelete(ok)
    \/ \E ok \in BOOLEAN : CleanupListSets(ok)
    \/ \E ok \in BOOLEAN : CleanupDestroy(ok)
    \/ CleanupReturn
    \/ ApplyBegin
    \/ \E ok \in BOOLEAN : ApplyCreate(ok)
    \/ \E ok \in BOOLEAN : ApplyFlush(ok)
    \/ \E added \in 0..2 : ApplyRestore(added)
    \/ \E ok \in BOOLEAN : SetupStateful(ok)
    \/ \E ok \in BOOLEAN : SetupLocalhost(ok)
    \/ \E ok \in BOOLEAN : SetupPrivate(ok)
    \/ \E ok \in BOOLEAN : SetupAllowed(ok)
    \/ \E ok \in BOOLEAN : SetupBlocked(ok)
    \/ \E ok \in BOOLEAN : SetupFinal(ok)
    \/ Interrupt
    \/ Exit

SpecShrink == InitShrink /\ [][NextShrink]_vars

(***************************************************************************)
(* C23.  After a run that rebuilt and ended in success, also when a        *)
(* destroy of cleanup was rejected and ignored, every set a tagged rule    *)
(* refers to is in the kernel and holds exactly the prefixes the current   *)
(* map has for that country and family (so it was flushed and filled in    *)
(* this run); no rule refers to a set left over from an earlier database.  *)
(* Refuted: setup_firewall_rules asks the kernel whether a set exists, not *)
(* the map; a set that survived cleanup and that the new map has no        *)
(* prefixes for gets its rules again, with the members of the old          *)
(* database.                                                               *)
(***************************************************************************)
ReferencedSets(fam) ==
    { chain[fam][k].set : k \in { j \in 1..Len(chain[fam]) :
                                    Marked(chain[fam][j]) /\ chain[fam][j].set # <<>> } }

\* the prefixes the current map has for a set name
CurrentPrefixes(name, fam) ==
    UNION { PrefixesOf(country_ip_ranges[k].ranges, fam)
            : k \in { j \in 1..Len(country_ip_ranges) :
                        SetName(country_ip_ranges[j].cc, fam) = name } }

\* cleanup left no tagged rule: every tagged rule of the chain is of this run
RebuiltWithSuccess == Ended /\ outcome = "success" /\ g.entered = "setup" /\ g.cleaned

C23_IgnoredDestroyIsHarmless ==
    RebuiltWithSuccess =>
        \A f \in Families : \A n \in ReferencedSets(f) :
            /\ n \in DOMAIN sets
            /\ CurrentPrefixes(n, f) # {}
            /\ sets[n].members = CurrentPrefixes(n, f)

(***************************************************************************)
(* Two runs after a reboot that found a hash file which is not the hash of *)
(* the database file.  Spec reaches this state with more changes of the    *)
(* environment than MaxEnv allows: install DbA, an unchanged-path run that *)
(* writes both files, the publisher moves to DbB, the database file is     *)
(* removed by hand, the next run downloads DbB on the path that writes no  *)
(* hash (main.py:899-905), the machine reboots.                            *)
(***************************************************************************)
InitStale ==
    /\ allowed \in AllowLists
    /\ chain = [f \in {"v4", "v6"} |-> IF f = "v4" THEN <<ForeignRule>> ELSE <<>>]
    /\ sets = WithSet(<<>>, ForeignSet, NewSet(8))
    /\ mmdb = "DbB"
    /\ hashFile = File(calculate_file_hash("DbA"))
    /\ lastCheck = File(CheckInfo(<<"Mon">>, <<"100">>))
    /\ remote = Remote(<<"Wed">>, <<"200">>, "DbB")
    /\ pc = "idle"
    /\ loc = Loc0
    /\ country_ip_ranges = <<>>
    /\ ALL_COUNTRIES = <<>>
    /\ outcome = "none"
    /\ runs = MaxRuns - 2 /\ faults = 0 /\ envs = MaxEnv /\ streak = 0
    /\ g = G0
    /\ prev = Prev0

SpecStale == InitStale /\ [][NextShrink]_vars

(***************************************************************************)
(* C24.  Reboot recovery (no sets, database file present) persists a       *)
(* baseline: when the run has ended other than by a kill, the hash file    *)
(* holds the hash of the database file if it was absent at the start and   *)
(* is as it was if it was present; and the run that follows a successful   *)
(* reboot recovery, with the remote content the same as the local file     *)
(* (or not published) and no command failing, finds the database unchanged *)
(* and touches neither the kernel nor the baseline.                        *)
(* Refuted in its last part: a hash file that is present is kept also when *)
(* it is not the hash of the database file, and the next run, comparing    *)
(* the download with it, rebuilds everything.                              *)
(***************************************************************************)
AfterRebootRecovery ==
    /\ prev.kind = "reboot" /\ prev.outcome = "success"
    /\ pc # "idle" /\ streak >= 2
    /\ faults = 0
    /\ remote.published => remote.db = g.mmdb0

C24_RebootPersistsBaseline ==
    /\ (RebootRecovery /\ Ended /\ outcome # "interrupted") =>
           /\ hashFile.exists
           /\ g.hash0.exists => hashFile = g.hash0
           /\ ~g.hash0.exists => hashFile = File(calculate_file_hash(g.mmdb0))
           /\ mmdb = g.mmdb0
    /\ (AfterRebootRecovery /\ Ended) =>
           /\ g.kind = "steady"
           /\ outcome = "success" /\ g.noupdate # ""
           /\ ~g.kmut /\ chain = g.chain0 /\ sets = g.sets0
           /\ g.hash0.exists /\ hashFile = g.hash0 /\ mmdb = g.mmdb0

(***************************************************************************)
(* C25.  Through any sequence of runs, one at a time, in which no command  *)
(* fails (first install, reboot recovery, steady-state runs with and       *)
(* without a change, in any order the environment brings about), each      *)
(* family's chain holds at most one generation of tagged rules: never two  *)
(* stateful accepts, never two final drops, no tagged rule twice; and when *)
(* a run has ended in success there is exactly one stateful accept and one *)
(* final drop.                                                             *)
(***************************************************************************)
C25_OneGeneration ==
    faults = 0 =>
        \A f \in Families :
            LET gen == Generation(chain[f])
            IN  /\ Cardinality(Positions(gen, IsStatefulAccept)) <= 1
                /\ Cardinality(Positions(gen, IsDefaultDrop)) <= 1
                /\ \A i, j \in 1..Len(gen) : gen[i] = gen[j] => i = j
                /\ (Ended /\ outcome = "success") =>
                       /\ Cardinality(Positions(gen, IsStatefulAccept)) = 1
                       /\ Cardinality(Positions(gen, IsDefaultDrop)) = 1

C25_Witness ==
    /\ faults = 0 /\ Ended /\ outcome = "success"
    /\ runs = MaxRuns /\ g.appended
    /\ \A f \in Families : Positions(g.chain0[f], IsStatefulAccept) # {}
    /\ \A f \in Families : Cardinality(Positions(chain[f], IsDefaultDrop)) = 1

(***************************************************************************)
(* C26.  Convergence after a partial failure, in the form a finite run     *)
(* settles.  A run in which nothing fails is a function of the state it    *)
(* starts in (kernel, files, remote).  So when such a run, started in the  *)
(* state a failed or killed run left, with the remote published and        *)
(* unchanged, ends with kernel and files exactly as it found them, every   *)
(* later run repeats it, and convergence requires that each family's chain *)
(* is complete by then: a stateful accept, and the default drop as the     *)
(* last tagged rule.  Stated for the states in which the database file is  *)
(* whole.                                                                  *)
(* Refuted: the fingerprint of a detected change is written before the     *)
(* rebuild; after a kill during the rebuild every later run reports "no    *)
(* update needed" and leaves the chain as the kill left it.                *)
(***************************************************************************)
Complete(fam) ==
    LET gen == Generation(chain[fam])
    IN  /\ gen # <<>>
        /\ IsDefaultDrop(gen[Len(gen)])
        /\ Positions(gen, IsStatefulAccept) # {}

\* the run that has ended changed nothing: the next fault-free run repeats it
RunChangedNothing ==
    /\ Ended /\ ~g.faulted
    /\ chain = g.chain0 /\ sets = g.sets0
    /\ mmdb = g.mmdb0 /\ hashFile = g.hash0 /\ lastCheck = g.last0

C26_ConvergesAfterFailure ==
    ( /\ RunChangedNothing
      /\ prev.outcome \in { "failure", "interrupted" }
      /\ streak >= 2 /\ remote.published
      /\ mmdb \notin { Absent, Corrupt } )
    => \A f \in Families : Complete(f)

====
